---------------------------- MODULE Spec2Model ----------------------------
(* A model of selenium_dork_bot.py: the proxy selector (_pick_proxy), the   *)
(* fetcher (safe_get), the signature classifier (any_match, map_hits,       *)
(* summarize), the SQLite dedup store (init_db, get_seen_urls_for_dork,     *)
(* mark_urls_seen) and the /dork handler that ties them together.           *)
(*                                                                          *)
(* Several specifications share the variables below; each one drives the    *)
(* part of the program it is about and leaves the rest untouched:           *)
(*   Spec         the /dork handler over the dedup store, with restarts     *)
(*   SpecStore    the dedup store's operations called one after another     *)
(*   SpecWriters  mark_urls_seen called from several connections at once    *)
(*   SpecProxy    _pick_proxy and its callers, one call at a time           *)
(*   SpecRace     _pick_proxy entered by several threads, line by line      *)
(*   SpecClassify map_hits / summarize over bounded texts and catalogs      *)
EXTENDS Naturals, Sequences, FiniteSets

VARIABLES
    \* ---- the SQLite file at DB_PATH (durable) ----
    db,               \* [exists, rows]: the file and its table dork_seen
    \* ---- the /dork handler (one update at a time) ----
    pc,               \* position of the handler
    dork_query,       \* the handler's local dork_query
    results,          \* the handler's local results (search_selenium's list)
    seen,             \* the handler's local seen
    new_urls,         \* the handler's local new_urls
    tx,               \* rows written by the open connection, not yet committed
    surfaced,         \* history: the (query, url) pairs already sent as new
    \* ---- direct calls of the store's operations ----
    call,             \* the last call made: its name, arguments and outcome
    \* ---- concurrent connections writing the store ----
    wpc,              \* per connection: position inside mark_urls_seen
    wargs,            \* per connection: the (dork, urls) it was called with
    wview,            \* per connection: the table as its transaction sees it
    wleft,            \* per connection: rows executemany has still to insert
    lock,             \* the connection holding SQLite's write lock, or 0
    recorded,         \* history: rows passed to calls that have returned
    db0,              \* history: the table before any of the calls
    \* ---- proxy settings (module globals) ----
    PROXIES,
    PROXY_POOL,
    PROXY_MODE,
    _rr_index,
    _last_proxy_url,
    returned,         \* history: what each _pick_proxy call returned, in order
    fetch,            \* outcome of the last safe_get call
    \* ---- threads inside _pick_proxy ----
    tpc,              \* per thread: the line it is at
    tread,            \* per thread: _rr_index as read on line 47
    tload,            \* per thread: _rr_index as loaded by += on line 48
    tret,             \* per thread: the proxy_url it returns
    observed,         \* history: the cursor value each started call picked with
    \* ---- the classifier ----
    text,             \* the matchable surface
    sigs,             \* one category of the catalog: <<[name, pats], ...>>
    hits,             \* map_hits' result
    summary,          \* summarize's result
    cpc               \* position of the classification

storeVars   == <<db>>
dorkVars    == <<pc, dork_query, results, seen, new_urls, tx, surfaced>>
callVars    == <<call>>
writerVars  == <<wpc, wargs, wview, wleft, lock, recorded, db0>>
proxyVars   == <<PROXIES, PROXY_POOL, PROXY_MODE, _rr_index, _last_proxy_url,
                 returned, fetch>>
raceVars    == <<tpc, tread, tload, tret, observed>>
classVars   == <<text, sigs, hits, summary, cpc>>
vars == <<storeVars, dorkVars, callVars, writerVars, proxyVars, raceVars,
          classVars>>

\* what each specification leaves untouched
notDork    == <<callVars, writerVars, proxyVars, raceVars, classVars>>
notStore   == <<dorkVars, writerVars, proxyVars, raceVars, classVars>>
notWriters == <<dorkVars, callVars, proxyVars, raceVars, classVars>>
notProxy   == <<storeVars, dorkVars, callVars, writerVars, raceVars, classVars>>
notRace    == <<storeVars, dorkVars, callVars, writerVars, classVars>>
notClass   == <<storeVars, dorkVars, callVars, writerVars, proxyVars, raceVars>>

-----------------------------------------------------------------------------
(* Bounds and input domains                                                 *)

Queries == {"q1", "q2"}
Urls    == {"a", "b", "c"}

\* the pages the search engine can list for a query: the two queries' hits
\* overlap in page a
Found(q) == IF q = "q1" THEN Urls ELSE {"a"}

\* longest list search_selenium hands back in the model (the code asks for 20)
MaxResults == 7

\* longest url list handed to mark_urls_seen when it is called directly
MaxBatch == 2

\* the connections writing the store at the same time
Writers == {"w1", "w2"}

\* proxy URLs a pool can hold, the single proxy PROXIES can name, and the
\* longest pool
PoolUrls  == {"http://p1", "socks5://p2", "ftp://p3"}
SingleUrl == "https://p0"
MaxPool   == 3

\* round-robin calls made before the model stops counting
MaxCalls == 7

\* threads inside _pick_proxy at the same time, and calls each one makes
Threads == {"t1", "t2"}
MaxThreadCalls == 2

\* longest matchable surface and largest category the classifier is run on
MaxText == 3
MaxSigs == 2

Min(x, y) == IF x <= y THEN x ELSE y

SeqsUpTo(S, n) == UNION {[1..k -> S] : k \in 0..n}

Range(s) == {s[i] : i \in 1..Len(s)}

-----------------------------------------------------------------------------
(* The dedup store: table dork_seen(dork, url), PRIMARY KEY (dork, url)     *)

NoFile == [exists |-> FALSE, rows |-> {}]

\* CREATE TABLE IF NOT EXISTS dork_seen (...); commit
init_db(file) ==
    IF file.exists THEN file ELSE [exists |-> TRUE, rows |-> {}]

\* SELECT url FROM dork_seen WHERE dork = ?  ->  {r[0] for r in rows}
get_seen_urls_for_dork(file, dork) ==
    {r[2] : r \in {x \in file.rows : x[1] = dork}}

\* A plain INSERT: a row whose key is present violates the PRIMARY KEY.
InsertPlain(rows, row) ==
    IF row \in rows THEN [rows |-> rows, err |-> TRUE]
                    ELSE [rows |-> rows \cup {row}, err |-> FALSE]

\* INSERT OR IGNORE INTO dork_seen (dork, url) VALUES (?, ?): one row. The key
\* is (dork, url): a row already present is skipped, any other row is added.
InsertOrIgnore(rows, row) ==
    IF \E x \in rows : x[1] = row[1] /\ x[2] = row[2]
    THEN [rows |-> rows, err |-> FALSE]
    ELSE [rows |-> rows \cup {row}, err |-> FALSE]

\* cur.executemany(INSERT OR IGNORE ..., [(dork, u) for u in urls]): the rows
\* one after another inside one transaction; the first error ends it.
RECURSIVE executemany(_, _, _)
executemany(rows, dork, urls) ==
    IF urls = <<>> THEN [rows |-> rows, err |-> FALSE]
    ELSE LET r == InsertOrIgnore(rows, <<dork, Head(urls)>>)
         IN IF r.err THEN r ELSE executemany(r.rows, dork, Tail(urls))

\* con.close() with no commit: the transaction is rolled back.
CommitDropped(file, rows) == file

\* con.commit(): the transaction's rows become the table.
Commit(file, rows) == [file EXCEPT !.rows = rows]

\* mark_urls_seen(dork, urls) as one call: the file it leaves and whether it
\* raised. An empty list returns before connecting; an error leaves the
\* transaction uncommitted, and closing the connection rolls it back.
mark_urls_seen(file, dork, urls) ==
    IF urls = <<>> THEN [file |-> file, err |-> FALSE]
    ELSE LET r == executemany(file.rows, dork, urls)
         IN IF r.err THEN [file |-> file, err |-> TRUE]
                     ELSE [file |-> Commit(file, r.rows), err |-> FALSE]

-----------------------------------------------------------------------------
(* The /dork handler (lines 228-246)                                        *)

\* the slice [:5] on line 240
LIMIT == 5

\* [u for u in results if u not in seen] with no slice
FilterNoLimit(res, sn) == SelectSeq(res, LAMBDA u : u \notin sn)

\* results[:5] with no filter
FirstFiveUnfiltered(res, sn) == SubSeq(res, 1, Min(LIMIT, Len(res)))

\* new_urls = [u for u in results if u not in seen][:5]
NewUrls(res, sn) ==
    LET kept == SelectSeq(res, LAMBDA u : u \notin sn)
    IN SubSeq(kept, 1, Min(LIMIT, Len(kept)))

NoLocals ==
    /\ dork_query = ""
    /\ results = <<>>
    /\ seen = {}
    /\ new_urls = <<>>
    /\ tx = {}

ClearLocals ==
    /\ dork_query' = ""
    /\ results' = <<>>
    /\ seen' = {}
    /\ new_urls' = <<>>
    /\ tx' = {}

\* lines 232-234: the query is read and search_selenium returns its list
Search ==
    /\ pc = "idle"
    /\ \E q \in Queries :
       \E res \in SeqsUpTo(Found(q), MaxResults) :
          /\ dork_query' = q
          /\ results' = res
    /\ pc' = "searched"
    /\ UNCHANGED <<db, seen, new_urls, tx, surfaced>>
    /\ UNCHANGED notDork

\* lines 235-237: search_selenium raises; the error is reported, nothing else
SearchError ==
    /\ pc = "idle"
    /\ pc' = "idle"
    /\ UNCHANGED <<db, dork_query, results, seen, new_urls, tx, surfaced>>
    /\ UNCHANGED notDork

\* lines 239-240
Filter ==
    /\ pc = "searched"
    /\ LET sn == get_seen_urls_for_dork(db, dork_query)
       IN /\ seen' = sn
          /\ new_urls' = NewUrls(results, sn)
    /\ pc' = "filtered"
    /\ UNCHANGED <<db, dork_query, results, tx, surfaced>>
    /\ UNCHANGED notDork

\* lines 241-243: nothing new, the handler says so and returns
NothingNew ==
    /\ pc = "filtered"
    /\ new_urls = <<>>
    /\ pc' = "idle"
    /\ ClearLocals
    /\ UNCHANGED <<db, surfaced>>
    /\ UNCHANGED notDork

\* line 245, mark_urls_seen lines 190-193: the rows are inserted in the
\* connection's transaction
MarkExecute ==
    /\ pc = "filtered"
    /\ new_urls # <<>>
    /\ LET r == executemany(db.rows, dork_query, new_urls)
       IN /\ ~r.err
          /\ tx' = r.rows
    /\ pc' = "executed"
    /\ UNCHANGED <<db, dork_query, results, seen, new_urls, surfaced>>
    /\ UNCHANGED notDork

\* line 245, mark_urls_seen lines 194-195: commit and close
MarkCommit ==
    /\ pc = "executed"
    /\ db' = Commit(db, tx)
    /\ tx' = {}
    /\ pc' = "marked"
    /\ UNCHANGED <<dork_query, results, seen, new_urls, surfaced>>
    /\ UNCHANGED notDork

\* line 245: sqlite3 raises (file locked, disk error); the handler ends with
\* the exception and the open transaction is rolled back
MarkRaises ==
    /\ pc \in {"filtered", "executed"}
    /\ new_urls # <<>>
    /\ pc' = "idle"
    /\ ClearLocals
    /\ UNCHANGED <<db, surfaced>>
    /\ UNCHANGED notDork

\* line 246: the new URLs are sent to the chat
Reply ==
    /\ pc = "marked"
    /\ surfaced' = surfaced \cup {<<dork_query, new_urls[i]>> : i \in 1..Len(new_urls)}
    /\ pc' = "replied"
    /\ UNCHANGED <<db, dork_query, results, seen, new_urls, tx>>
    /\ UNCHANGED notDork

\* the handler returns
Return ==
    /\ pc = "replied"
    /\ pc' = "idle"
    /\ ClearLocals
    /\ UNCHANGED <<db, surfaced>>
    /\ UNCHANGED notDork

\* the process dies at any point and is started again: main() runs init_db;
\* the file keeps what was committed, everything in memory is gone
Restart ==
    /\ db' = init_db(db)
    /\ pc' = "idle"
    /\ ClearLocals
    /\ UNCHANGED surfaced
    /\ UNCHANGED notDork

NoCall == [op |-> "none", dork |-> "", urls |-> <<>>, ret |-> {}, err |-> FALSE,
           again |-> FALSE]
NoArgs == [dork |-> "", urls |-> <<>>]

InitCalls   == call = NoCall
InitWriters ==
    /\ wpc = [w \in Writers |-> "idle"]
    /\ wargs = [w \in Writers |-> NoArgs]
    /\ wview = [w \in Writers |-> {}]
    /\ wleft = [w \in Writers |-> <<>>]
    /\ lock = "free" /\ recorded = {} /\ db0 = {}
InitDorkOff ==
    /\ pc = "idle" /\ NoLocals /\ surfaced = {}
InitProxyOff ==
    /\ PROXIES = "None" /\ PROXY_POOL = <<>> /\ PROXY_MODE = "single"
    /\ _rr_index = 0 /\ _last_proxy_url = "None"
    /\ returned = <<>>
    /\ fetch = [kind |-> "none", exc |-> "None",
                proxies |-> [http |-> "None", https |-> "None"]]
InitRaceOff ==
    /\ tpc = [t \in Threads |-> "idle"]
    /\ tread = [t \in Threads |-> 0]
    /\ tload = [t \in Threads |-> 0]
    /\ tret = [t \in Threads |-> "None"]
    /\ observed = <<>>
InitClassOff ==
    /\ text = <<>> /\ sigs = <<>> /\ hits = <<>> /\ summary = <<>>
    /\ cpc = "off"

Init ==
    /\ db = init_db(NoFile)
    /\ InitDorkOff
    /\ InitCalls /\ InitWriters /\ InitProxyOff /\ InitRaceOff /\ InitClassOff

Next ==
    \/ Search
    \/ SearchError
    \/ Filter
    \/ NothingNew
    \/ MarkExecute
    \/ MarkCommit
    \/ MarkRaises
    \/ Reply
    \/ Return
    \/ Restart

Spec == Init /\ [][Next]_vars

-----------------------------------------------------------------------------
(* Claims about the /dork handler, checked under Spec                       *)

\* n is c with some entries left out: same entries, same relative order
RECURSIVE IsSubsequence(_, _)
IsSubsequence(n, c) ==
    IF n = <<>> THEN TRUE
    ELSE IF c = <<>> THEN FALSE
    ELSE IF Head(n) = Head(c) THEN IsSubsequence(Tail(n), Tail(c))
    ELSE IsSubsequence(n, Tail(c))

\* C1: once a run has computed its new URLs, none of them was stored for the
\* run's query before the run (the table is still as the run found it), there
\* are at most LIMIT of them, and they are a subsequence of the candidates.
C1_FilteringCorrect ==
    pc = "filtered" =>
        /\ \A i \in 1..Len(new_urls) : <<dork_query, new_urls[i]>> \notin db.rows
        /\ Len(new_urls) <= LIMIT
        /\ IsSubsequence(new_urls, results)

\* a run whose candidates hold a stored URL, which the filter drops, and more
\* than LIMIT new ones, of which the first LIMIT are kept in their order
C1_Witness ==
    /\ pc = "filtered"
    /\ \E i \in 1..Len(results) : <<dork_query, results[i]>> \in db.rows
    /\ Len(SelectSeq(results, LAMBDA u : <<dork_query, u>> \notin db.rows)) > LIMIT
    /\ Len(new_urls) = LIMIT
    /\ \E i, j \in 1..Len(new_urls) : new_urls[i] # new_urls[j]

\* C2: a run that sends its new URLs to the chat sends none that an earlier
\* run for the same query has sent, whatever happened in between (other
\* queries' runs, failed runs, restarts of the process).
C2_NeverSurfacedTwice ==
    [][(pc = "marked" /\ pc' = "replied") =>
          \A i \in 1..Len(new_urls) : <<dork_query, new_urls[i]>> \notin surfaced]_vars

\* a second run for a query has sent URLs after a first one did
C2_Witness ==
    /\ pc = "replied"
    /\ \E u \in Urls : <<dork_query, u>> \in surfaced /\ u \notin Range(new_urls)
    /\ \E q \in Queries \ {dork_query} : \E u \in Range(new_urls) : <<q, u>> \in surfaced

\* C3: whatever has been sent to the chat is committed in the table: the
\* rows are there when the reply is sent and stay there through any crash.
C3_RecordedBeforeSurfaced ==
    /\ surfaced \subseteq db.rows
    /\ pc = "replied" => \A i \in 1..Len(new_urls) : <<dork_query, new_urls[i]>> \in db.rows

\* a reply is being sent for two or more URLs while the table also holds a
\* row that was committed by a run that died before its reply
C3_Witness ==
    /\ pc = "replied"
    /\ Len(new_urls) >= 2
    /\ \E r \in db.rows : r \notin surfaced /\ r[1] = dork_query

-----------------------------------------------------------------------------
(* The dedup store's operations called one after another (SpecStore)        *)

\* mark_urls_seen(dork, urls); again: the call before it was the same call
\* and did not raise
CallMark ==
    /\ \E q \in Queries, urls \in SeqsUpTo(Urls, MaxBatch) :
          LET r == mark_urls_seen(db, q, urls)
          IN /\ db' = r.file
             /\ call' = [op |-> "mark", dork |-> q, urls |-> urls, ret |-> {},
                         err |-> r.err,
                         again |-> /\ call.op = "mark" /\ ~call.err
                                   /\ call.dork = q /\ call.urls = urls]
    /\ UNCHANGED notStore

\* get_seen_urls_for_dork(dork)
CallSeen ==
    /\ \E q \in Queries :
          call' = [op |-> "seen", dork |-> q, urls |-> <<>>,
                   ret |-> get_seen_urls_for_dork(db, q),
                   err |-> FALSE, again |-> FALSE]
    /\ UNCHANGED db
    /\ UNCHANGED notStore

\* init_db(), as main() calls it when the process starts again
CallInitDb ==
    /\ db' = init_db(db)
    /\ call' = [op |-> "init", dork |-> "", urls |-> <<>>, ret |-> {},
                err |-> FALSE, again |-> FALSE]
    /\ UNCHANGED notStore

InitStore ==
    /\ db = init_db(NoFile)
    /\ InitDorkOff
    /\ InitCalls /\ InitWriters /\ InitProxyOff /\ InitRaceOff /\ InitClassOff

NextStore ==
    \/ CallMark
    \/ CallSeen
    \/ CallInitDb

SpecStore == InitStore /\ [][NextStore]_vars

\* C4: a mark_urls_seen call that repeats the call before it, which did not
\* raise, does not raise either and leaves the file, and so the set read back
\* for the query, as the first call left it.
C4_RecordIdempotent ==
    [][(/\ call.op = "mark" /\ ~call.err
        /\ call'.op = "mark"
        /\ call'.dork = call.dork /\ call'.urls = call.urls)
       => /\ ~call'.err
          /\ db' = db
          /\ get_seen_urls_for_dork(db', call.dork) =
                get_seen_urls_for_dork(db, call.dork)]_vars

\* the same list of two urls was recorded twice in a row into a table that
\* also holds rows of the other query
C4_Witness ==
    /\ call.op = "mark" /\ call.again
    /\ Len(call.urls) = 2 /\ call.urls[1] # call.urls[2]
    /\ \E r \in db.rows : r[1] # call.dork

-----------------------------------------------------------------------------
(* mark_urls_seen called from several connections at once (SpecWriters)     *)
(* Each connection has its own sqlite3 connection to the one file; SQLite   *)
(* lets one connection at a time hold the write lock, from its first INSERT *)
(* to its commit.                                                           *)

RowsOf(args) == {<<args.dork, args.urls[i]>> : i \in 1..Len(args.urls)}

\* lines 187-189: the call is made; an empty list returns at once
WCall(w) ==
    /\ wpc[w] = "idle"
    /\ \E q \in Queries, urls \in SeqsUpTo(Urls, MaxBatch) :
          /\ wargs' = [wargs EXCEPT ![w] = [dork |-> q, urls |-> urls]]
          /\ wleft' = [wleft EXCEPT ![w] = urls]
          /\ wpc' = [wpc EXCEPT ![w] = IF urls = <<>> THEN "done" ELSE "connected"]
    /\ UNCHANGED <<db, wview, lock, recorded, db0>>
    /\ UNCHANGED notWriters

\* the transaction is opened without waiting for the write lock
WBeginNoLock(w) ==
    /\ wpc[w] = "connected"
    /\ lock' = w
    /\ wview' = [wview EXCEPT ![w] = db.rows]
    /\ wpc' = [wpc EXCEPT ![w] = "writing"]
    /\ UNCHANGED <<db, wargs, wleft, recorded, db0>>
    /\ UNCHANGED notWriters

\* lines 190-192: the first INSERT opens the transaction and takes the write
\* lock; the transaction works on the table as committed so far
WBegin(w) ==
    /\ wpc[w] = "connected"
    /\ lock = "free"
    /\ lock' = w
    /\ wview' = [wview EXCEPT ![w] = db.rows]
    /\ wpc' = [wpc EXCEPT ![w] = "writing"]
    /\ UNCHANGED <<db, wargs, wleft, recorded, db0>>
    /\ UNCHANGED notWriters

\* line 192: the lock stays taken past the connection's timeout and sqlite3
\* raises OperationalError; the call ends without having written
WBusy(w) ==
    /\ wpc[w] = "connected"
    /\ lock # "free"
    /\ wpc' = [wpc EXCEPT ![w] = "raised"]
    /\ wleft' = [wleft EXCEPT ![w] = <<>>]
    /\ UNCHANGED <<db, wargs, wview, lock, recorded, db0>>
    /\ UNCHANGED notWriters

\* lines 192-193: executemany inserts the next row
WInsert(w) ==
    /\ wpc[w] = "writing"
    /\ wleft[w] # <<>>
    /\ LET r == InsertOrIgnore(wview[w], <<wargs[w].dork, Head(wleft[w])>>)
       IN /\ ~r.err
          /\ wview' = [wview EXCEPT ![w] = r.rows]
    /\ wleft' = [wleft EXCEPT ![w] = Tail(wleft[w])]
    /\ UNCHANGED <<db, wpc, wargs, lock, recorded, db0>>
    /\ UNCHANGED notWriters

\* lines 194-195: commit, close; the call has completed
WCommit(w) ==
    /\ wpc[w] = "writing"
    /\ wleft[w] = <<>>
    /\ db' = Commit(db, wview[w])
    /\ lock' = "free"
    /\ wview' = [wview EXCEPT ![w] = {}]
    /\ wpc' = [wpc EXCEPT ![w] = "done"]
    /\ recorded' = recorded \cup RowsOf(wargs[w])
    /\ UNCHANGED <<wargs, wleft, db0>>
    /\ UNCHANGED notWriters

InitWritersOn ==
    /\ \E rows \in SUBSET ({"q1"} \X Urls) :
          /\ db = [exists |-> TRUE, rows |-> rows]
          /\ db0 = rows
    /\ wpc = [w \in Writers |-> "idle"]
    /\ wargs = [w \in Writers |-> NoArgs]
    /\ wview = [w \in Writers |-> {}]
    /\ wleft = [w \in Writers |-> <<>>]
    /\ lock = "free" /\ recorded = {}
    /\ InitDorkOff
    /\ InitCalls /\ InitProxyOff /\ InitRaceOff /\ InitClassOff

NextWriters ==
    \E w \in Writers :
        \/ WCall(w)
        \/ WBegin(w)
        \/ WBusy(w)
        \/ WInsert(w)
        \/ WCommit(w)

SpecWriters == InitWritersOn /\ [][NextWriters]_vars

AllReturned == \A w \in Writers : wpc[w] \in {"done", "raised"}

\* C7: once every call has ended, the table holds every row passed to a call
\* that completed and every row it held before the calls.
C7_NoLostEntries ==
    AllReturned =>
        /\ \A w \in Writers : wpc[w] = "done" => RowsOf(wargs[w]) \subseteq db.rows
        /\ recorded \subseteq db.rows
        /\ db0 \subseteq db.rows

\* two calls for one query, with different urls, have both completed on a
\* table that held a further row of that query
C7_Witness ==
    /\ wpc["w1"] = "done" /\ wpc["w2"] = "done"
    /\ wargs["w1"].dork = wargs["w2"].dork
    /\ wargs["w1"].urls # <<>> /\ wargs["w2"].urls # <<>>
    /\ RowsOf(wargs["w1"]) \cap RowsOf(wargs["w2"]) = {}
    /\ \E r \in db0 : r[1] = wargs["w1"].dork /\ r \notin recorded

-----------------------------------------------------------------------------
(* Proxy selection (lines 29-56) and its callers, one call at a time        *)
(* (SpecProxy). The settings are module globals; the model starts from any  *)
(* setting of PROXIES, PROXY_POOL and PROXY_MODE, with _rr_index = 0.       *)
(* Python's None is written "None".                                         *)

Modes == {"single", "rr", "random"}

\* urlparse(proxy_url).scheme.lower()
Scheme(url) ==
    CASE url \in {"http://p1"}   -> "http"
      [] url \in {"https://p0"}  -> "https"
      [] url \in {"socks5://p2"} -> "socks5"
      [] OTHER                   -> "ftp"

\* _proxies_dict_from_url: the dict for requests, or None (both entries None)
_proxies_dict_from_url(proxy_url) ==
    IF proxy_url = "None" THEN [http |-> "None", https |-> "None"]
    ELSE IF Scheme(proxy_url) \in {"http", "https", "socks5", "socks5h"}
         THEN [http |-> proxy_url, https |-> proxy_url]
         ELSE [http |-> "None", https |-> "None"]

\* _pick_proxy with line 48 left out: the cursor never moves
PickNoAdvance(choice) ==
    IF PROXY_POOL # <<>>
    THEN [ret |-> IF PROXY_MODE = "rr"
                  THEN PROXY_POOL[(_rr_index % Len(PROXY_POOL)) + 1]
                  ELSE IF PROXY_MODE = "random" THEN PROXY_POOL[choice]
                  ELSE PROXY_POOL[1],
          idx |-> _rr_index]
    ELSE [ret |-> PROXIES, idx |-> _rr_index]

\* _pick_proxy answering None for an empty pool whatever PROXIES is
PickIgnoresSingle(choice) ==
    IF PROXY_POOL # <<>>
    THEN [ret |-> IF PROXY_MODE = "rr"
                  THEN PROXY_POOL[(_rr_index % Len(PROXY_POOL)) + 1]
                  ELSE IF PROXY_MODE = "random" THEN PROXY_POOL[choice]
                  ELSE PROXY_POOL[1],
          idx |-> IF PROXY_MODE = "rr" THEN _rr_index + 1 ELSE _rr_index]
    ELSE [ret |-> "None", idx |-> _rr_index]

\* _pick_proxy(): the proxy_url returned and the cursor it leaves. choice is
\* the position random.choice draws (used in random mode only); Python lists
\* count from 0, sequences here from 1.
_pick_proxy(choice) ==
    IF PROXY_POOL # <<>>
    THEN IF PROXY_MODE = "rr"
         THEN [ret |-> PROXY_POOL[(_rr_index % Len(PROXY_POOL)) + 1],
               idx |-> _rr_index + 1]
         ELSE IF PROXY_MODE = "random"
         THEN [ret |-> PROXY_POOL[choice], idx |-> _rr_index]
         ELSE [ret |-> PROXY_POOL[1], idx |-> _rr_index]
    ELSE [ret |-> PROXIES, idx |-> _rr_index]

\* positions random.choice can draw
Choices == IF PROXY_POOL = <<>> THEN {1} ELSE 1..Len(PROXY_POOL)

\* how many of the latest returns the history keeps: one pool's length
Window == IF PROXY_POOL = <<>> THEN 1 ELSE Len(PROXY_POOL)

LastN(s, n) == IF Len(s) <= n THEN s ELSE SubSeq(s, Len(s) - n + 1, Len(s))

\* the effect of one _pick_proxy call on the globals
Picked(r) ==
    /\ _rr_index' = r.idx
    /\ _last_proxy_url' = r.ret
    /\ returned' = LastN(Append(returned, r.ret), Window)
    /\ UNCHANGED <<PROXIES, PROXY_POOL, PROXY_MODE>>

\* search_selenium, line 206: the browser is started behind the picked proxy
search_selenium ==
    /\ _rr_index < MaxCalls
    /\ \E c \in Choices : Picked(_pick_proxy(c))
    /\ UNCHANGED fetch
    /\ UNCHANGED notProxy

\* what requests.get can do: answer, or raise one of its transport errors
Outcomes == {"ok", "Timeout", "ConnectionError", "SSLError", "ProxyError",
             "TooManyRedirects"}

\* safe_get(url), lines 68-75: the response is returned and an exception of
\* requests.get leaves the function as it is, there is no try around the call
safe_get ==
    /\ _rr_index < MaxCalls
    /\ \E c \in Choices, out \in Outcomes :
          LET r == _pick_proxy(c)
          IN /\ Picked(r)
             /\ fetch' = IF out = "ok"
                         THEN [kind |-> "response", exc |-> "None",
                               proxies |-> _proxies_dict_from_url(r.ret)]
                         ELSE [kind |-> "raised", exc |-> out,
                               proxies |-> _proxies_dict_from_url(r.ret)]
    /\ UNCHANGED notProxy

NoFetch == [kind |-> "none", exc |-> "None",
            proxies |-> [http |-> "None", https |-> "None"]]

InitSettings ==
    /\ PROXIES \in {"None", SingleUrl}
    /\ PROXY_POOL \in SeqsUpTo(PoolUrls, MaxPool)
    /\ PROXY_MODE \in Modes
    /\ _rr_index = 0
    /\ _last_proxy_url = "None"
    /\ returned = <<>>
    /\ fetch = NoFetch

InitProxy ==
    /\ InitSettings
    /\ db = init_db(NoFile)
    /\ InitDorkOff /\ InitCalls /\ InitWriters /\ InitRaceOff /\ InitClassOff

NextProxy ==
    \/ search_selenium
    \/ safe_get

SpecProxy == InitProxy /\ [][NextProxy]_vars

Count(s, x) == Cardinality({i \in 1..Len(s) : s[i] = x})

\* C5: in round-robin mode with a pool of k > 0 entries, the latest k calls,
\* wherever the cursor stood when they began, returned every pool entry as
\* often as the pool holds it: each position of the pool exactly once.
C5_RoundRobinFair ==
    (PROXY_MODE = "rr" /\ PROXY_POOL # <<>> /\ Len(returned) = Len(PROXY_POOL))
    => \A x \in PoolUrls : Count(returned, x) = Count(PROXY_POOL, x)

\* three calls on a pool of three different proxies, begun in mid-cycle
C5_Witness ==
    /\ PROXY_MODE = "rr"
    /\ Len(PROXY_POOL) = 3
    /\ Cardinality(Range(PROXY_POOL)) = 3
    /\ Len(returned) = 3
    /\ _rr_index = 5

\* C6 as claimed: in fixed mode a call returns pool[0] when the pool is not
\* empty and None when it is.
C6_FixedReturnsFirstOrNone ==
    (PROXY_MODE = "single" /\ returned # <<>>)
    => returned[Len(returned)] =
          (IF PROXY_POOL # <<>> THEN PROXY_POOL[1] ELSE "None")

\* C6 as the code has it: in fixed mode a call returns pool[0] when the pool
\* is not empty, and PROXIES, the single proxy setting (None unless one is
\* set), when it is; the cursor stays where it was.
C6_FixedReturnsFirstOrSingle ==
    (PROXY_MODE = "single" /\ returned # <<>>)
    => /\ returned[Len(returned)] =
             (IF PROXY_POOL # <<>> THEN PROXY_POOL[1] ELSE PROXIES)
       /\ _last_proxy_url = returned[Len(returned)]
       /\ _rr_index = 0

\* a fixed-mode call with an empty pool and a single proxy set
C6_Witness ==
    /\ PROXY_MODE = "single"
    /\ PROXY_POOL = <<>>
    /\ PROXIES = SingleUrl
    /\ returned = <<SingleUrl>>

\* C9 as claimed: safe_get never ends by raising; a transport error comes
\* back as a result.
C9_FetchNeverRaises == fetch.kind # "raised"

-----------------------------------------------------------------------------
(* _pick_proxy entered by several threads (SpecRace). The function takes no *)
(* lock; a thread can be suspended between any two of its reads and writes  *)
(* of the globals, so each of them is a step of its own.                    *)

CallsBy(t) == Cardinality({i \in 1..Len(observed) : observed[i].by = t})

\* lines 45-46 with a pool in round-robin mode: the call goes on to line 47
TEnterRR(t) ==
    /\ tpc[t] = "idle"
    /\ CallsBy(t) < MaxThreadCalls
    /\ PROXY_POOL # <<>> /\ PROXY_MODE = "rr"
    /\ tpc' = [tpc EXCEPT ![t] = "line47"]
    /\ UNCHANGED <<tread, tload, tret, observed>>
    /\ UNCHANGED proxyVars
    /\ UNCHANGED notRace

\* line 47: proxy_url = PROXY_POOL[_rr_index % len(PROXY_POOL)]
TRead47(t) ==
    /\ tpc[t] = "line47"
    /\ tread' = [tread EXCEPT ![t] = _rr_index]
    /\ tret' = [tret EXCEPT ![t] = PROXY_POOL[(_rr_index % Len(PROXY_POOL)) + 1]]
    /\ observed' = Append(observed, [by |-> t, cursor |-> _rr_index])
    /\ tpc' = [tpc EXCEPT ![t] = "line48"]
    /\ UNCHANGED tload
    /\ UNCHANGED proxyVars
    /\ UNCHANGED notRace

\* line 48, _rr_index += 1: the global is loaded ...
TLoad48(t) ==
    /\ tpc[t] = "line48"
    /\ tload' = [tload EXCEPT ![t] = _rr_index]
    /\ tpc' = [tpc EXCEPT ![t] = "store48"]
    /\ UNCHANGED <<tread, tret, observed>>
    /\ UNCHANGED proxyVars
    /\ UNCHANGED notRace

\* ... and the sum is stored
TStore48(t) ==
    /\ tpc[t] = "store48"
    /\ _rr_index' = tload[t] + 1
    /\ tpc' = [tpc EXCEPT ![t] = "line53"]
    /\ UNCHANGED <<tread, tload, tret, observed>>
    /\ UNCHANGED <<PROXIES, PROXY_POOL, PROXY_MODE, _last_proxy_url, returned, fetch>>
    /\ UNCHANGED notRace

\* lines 49-52 and 55: the modes that leave the cursor alone, and no pool
TPickOther(t) ==
    /\ tpc[t] = "idle"
    /\ CallsBy(t) < MaxThreadCalls
    /\ ~(PROXY_POOL # <<>> /\ PROXY_MODE = "rr")
    /\ \E c \in Choices : tret' = [tret EXCEPT ![t] = _pick_proxy(c).ret]
    /\ observed' = Append(observed, [by |-> t, cursor |-> _rr_index])
    /\ tpc' = [tpc EXCEPT ![t] = "line53"]
    /\ UNCHANGED <<tread, tload>>
    /\ UNCHANGED proxyVars
    /\ UNCHANGED notRace

\* lines 53-54 (55-56 with no pool): _last_proxy_url is set, the call returns
TReturn(t) ==
    /\ tpc[t] = "line53"
    /\ _last_proxy_url' = tret[t]
    /\ returned' = LastN(Append(returned, tret[t]), Window)
    /\ tpc' = [tpc EXCEPT ![t] = "idle"]
    /\ UNCHANGED <<tread, tload, tret, observed>>
    /\ UNCHANGED <<PROXIES, PROXY_POOL, PROXY_MODE, _rr_index, fetch>>
    /\ UNCHANGED notRace

InitRace ==
    /\ InitSettings
    /\ InitRaceOff
    /\ db = init_db(NoFile)
    /\ InitDorkOff /\ InitCalls /\ InitWriters /\ InitClassOff

NextRace ==
    \E t \in Threads :
        \/ TEnterRR(t)
        \/ TRead47(t)
        \/ TLoad48(t)
        \/ TStore48(t)
        \/ TPickOther(t)
        \/ TReturn(t)

SpecRace == InitRace /\ [][NextRace]_vars

\* C8 as claimed: in round-robin mode no two calls pick with the same cursor
\* value, and when no call is under way the cursor has grown by one per call.
C8_CursorAdvanceAtomic ==
    (PROXY_MODE = "rr" /\ PROXY_POOL # <<>>)
    => /\ \A i, j \in 1..Len(observed) :
             i # j => observed[i].cursor # observed[j].cursor
       /\ (\A t \in Threads : tpc[t] = "idle") => _rr_index = Len(observed)

-----------------------------------------------------------------------------
(* The signature classifier (lines 92-99) over bounded inputs (SpecClassify)*)
(* A text is a sequence of characters. A pattern is a sequence of atoms, the *)
(* part of the regular expressions the catalog is written in: a letter      *)
(* stands for itself and "." for any character. A category is a dict of     *)
(* name -> patterns, which Python keeps in declaration order: a sequence of *)
(* entries with different names.                                            *)

Chars == {"s", "S", "x"}

\* str.lower() on one character, as re.IGNORECASE compares
Lower(c) == CASE c = "S" -> "s" [] c = "X" -> "x" [] OTHER -> c

AtomMatches(atom, ch) == atom = "." \/ Lower(atom) = Lower(ch)

\* the pattern matches the text from position i on
RECURSIVE MatchHere(_, _, _)
MatchHere(pat, txt, i) ==
    IF pat = <<>> THEN TRUE
    ELSE IF i > Len(txt) THEN FALSE
    ELSE AtomMatches(Head(pat), txt[i]) /\ MatchHere(Tail(pat), txt, i + 1)

\* re.search(p, text, re.IGNORECASE) is not None: the scan tries every start
RECURSIVE SearchFrom(_, _, _)
SearchFrom(pat, txt, i) ==
    IF i > Len(txt) + 1 THEN FALSE
    ELSE MatchHere(pat, txt, i) \/ SearchFrom(pat, txt, i + 1)

re_search(pat, txt) == SearchFrom(pat, txt, 1)

\* all(...) where the code has any(...)
all_match(txt, pats) == \A j \in 1..Len(pats) : re_search(pats[j], txt)

\* any(re.search(p, text, re.IGNORECASE) for p in pats)
any_match(txt, pats) == \E j \in 1..Len(pats) : re_search(pats[j], txt)

\* {name: any_match(text, pats) for name, pats in sigs.items()}
map_hits(txt, ss) ==
    [i \in 1..Len(ss) |-> [name |-> ss[i].name, hit |-> any_match(txt, ss[i].pats)]]

\* [k for k, v in d.items() if v]
summarize(d) ==
    LET kept == SelectSeq(d, LAMBDA e : e.hit)
    IN [i \in 1..Len(kept) |-> kept[i].name]

\* the signatures categories are built from in the model
SigPool ==
    { [name |-> "Stripe", pats |-> << <<"s", "x">> >>],
      [name |-> "Stripe", pats |-> << <<"s", ".", "s">>, <<"X">> >>],
      [name |-> "PayPal", pats |-> << <<"X">> >>],
      [name |-> "PayPal", pats |-> << <<"x", "x">>, <<"s", "x">> >>],
      [name |-> "Adyen",  pats |-> << <<"s", ".", "s">> >>],
      [name |-> "Adyen",  pats |-> << >>] }

\* dict keys are unique
Categories ==
    {c \in SeqsUpTo(SigPool, MaxSigs) :
        \A i, j \in 1..Len(c) : i # j => c[i].name # c[j].name}

\* hits = map_hits(text, sigs)
MapHits ==
    /\ cpc = "ready"
    /\ hits' = map_hits(text, sigs)
    /\ cpc' = "mapped"
    /\ UNCHANGED <<text, sigs, summary>>
    /\ UNCHANGED notClass

\* summary = summarize(hits)
Summarize ==
    /\ cpc = "mapped"
    /\ summary' = summarize(hits)
    /\ cpc' = "summarized"
    /\ UNCHANGED <<text, sigs, hits>>
    /\ UNCHANGED notClass

InitClassify ==
    /\ text \in SeqsUpTo(Chars, MaxText)
    /\ sigs \in Categories
    /\ hits = <<>>
    /\ summary = <<>>
    /\ cpc = "ready"
    /\ db = init_db(NoFile)
    /\ InitDorkOff /\ InitCalls /\ InitWriters /\ InitProxyOff /\ InitRaceOff

NextClassify ==
    \/ MapHits
    \/ Summarize

SpecClassify == InitClassify /\ [][NextClassify]_vars

\* the pattern matches somewhere in the text, character for character
MatchesSomewhere(pat, txt) ==
    \E start \in 0..Len(txt) :
        /\ start + Len(pat) <= Len(txt)
        /\ \A k \in 1..Len(pat) :
              \/ pat[k] = "."
              \/ Lower(pat[k]) = Lower(txt[start + k])

SigMatches(sig, txt) == \E j \in 1..Len(sig.pats) : MatchesSomewhere(sig.pats[j], txt)

\* C10: the classifier's result for a category always exists and holds the
\* names of exactly the signatures with a matching pattern, each once, in the
\* order the category declares them; with no such signature it is empty.
C10_ClassifierResult ==
    cpc = "summarized" =>
        /\ \A i \in 1..Len(sigs) :
              SigMatches(sigs[i], text) <=> (\E a \in 1..Len(summary) : summary[a] = sigs[i].name)
        /\ \A a \in 1..Len(summary) : \E i \in 1..Len(sigs) : sigs[i].name = summary[a]
        /\ \A a, b \in 1..Len(summary) :
              a < b => \E i, j \in 1..Len(sigs) :
                          i < j /\ sigs[i].name = summary[a] /\ sigs[j].name = summary[b]
        /\ ((\A i \in 1..Len(sigs) : ~SigMatches(sigs[i], text)) => summary = <<>>)

\* a category of two signatures that both match, the first by its second
\* pattern alone and without regard to case
C10_Witness ==
    /\ cpc = "summarized"
    /\ Len(sigs) = 2
    /\ summary = <<sigs[1].name, sigs[2].name>>
    /\ Len(sigs[1].pats) = 2
    /\ ~MatchesSomewhere(sigs[1].pats[1], text)
    /\ sigs[1].pats[2] = <<"X">>
    /\ "x" \in Range(text)

=============================================================================
